---- MODULE Spec2Model ----
(***************************************************************************)
(* GitKeeper: the secure settings store (settings.py), the backup engine   *)
(* (github_backup.py) and the two progress screens that drive a backup     *)
(* from the terminal interface (tui_app.py).                               *)
(***************************************************************************)
EXTENDS Integers, Sequences, FiniteSets, TLC

VARIABLES
    now,            \* wall clock in whole seconds (CURRENT_TIMESTAMP, datetime.now())
    settings,       \* table settings: key -> row
    profiles,       \* table profiles: name -> row
    got,            \* the value the most recent get() returned
    lastSet,        \* per key: the arguments of the set() that wrote the current row
    listed,         \* what the most recent list_settings() returned
    lastDelete,     \* the most recent delete() call: its key, what it returned, what it did
    lastActivate,   \* the most recent set_active_profile call and what it saw
    key_file,       \* the file .key beside the database
    manager,        \* per SettingsManager instance: where its construction stands, its key
    txn,            \* the transaction a set_active_profile has open on the database
    seen,           \* what the most recent get_active_profile of another process returned
    dashboard,      \* MainDashboard: its confirmation flags, and the app's screens
    account,        \* what GitHub returns for user.get_repos(type='all')
    run,            \* per backup run: the GitHubBackup instance and where its run stands
    files,          \* the files and directories under the backup directory
    log             \* backup.log: the records written through self.logger

settingsVars == <<settings, got, lastSet, listed, lastDelete>>
profileVars == <<profiles, lastActivate>>
keyVars == <<key_file, manager>>
txnVars == <<txn, seen>>
uiVars == <<dashboard>>
backupVars == <<account, run, files, log>>

(***************************************************************************)
(* Bounds of the model.                                                    *)
(***************************************************************************)
MaxTime == 2
MaxRepos == 2

(***************************************************************************)
(* Python values, as far as json.dumps / json.loads tell them apart.       *)
(* A value is its type and its text: for a str the characters, for the     *)
(* others the JSON text json.dumps produces.                               *)
(***************************************************************************)
PyStr(t) == [type |-> "str", text |-> t]
PyInt(t) == [type |-> "int", text |-> t]
PyBool(t) == [type |-> "bool", text |-> t]
PyList(t) == [type |-> "list", text |-> t]
PyNone == [type |-> "NoneType", text |-> "null"]

\* json.dumps(value) for a value that is not a str
json_dumps(value) == value.text

\* the texts json.loads accepts, among the texts of the model
JsonTexts == {"123", "true", "null", "[1]"}

\* json.loads(text), for text in JsonTexts
json_loads(text) ==
    CASE text = "123" -> PyInt("123")
      [] text = "true" -> PyBool("true")
      [] text = "null" -> PyNone
      [] text = "[1]" -> PyList("[1]")

(***************************************************************************)
(* Fernet: a token is the plaintext sealed under a key; decrypting under   *)
(* another key raises InvalidToken.                                        *)
(***************************************************************************)
encryption_key == "key1"

\* a stored TEXT cell: plain text, or a Fernet token
Plain(t) == [fernet |-> "", text |-> t]

\* Fernet(key).encrypt(value)
Seal(key, value) == [fernet |-> key, text |-> value]

\* Fernet(key).decrypt raises InvalidToken unless the token was sealed under key
Opens(key, cell) == cell.fernet = key

_encrypt_value(value) == Seal(encryption_key, value)

CanDecrypt(cell) == Opens(encryption_key, cell)

_decrypt_value(cell) == cell.text

(***************************************************************************)
(* Inputs                                                                  *)
(***************************************************************************)
Keys == {"github_token", "k"}
Tokens == {"ghp_abc", "123"}
Values == {PyStr("ghp_abc"), PyStr("123"), PyStr("true"), PyInt("123")}
Descriptions == {"None", "GitHub Personal Access Token"}
Defaults == {PyNone, PyStr("./backups")}
ProfileNames == {"A", "B", "C"}
SettingsDicts == {"{}", "{\"parallel_workers\": 4}"}

NoGet == [key |-> "", value |-> PyNone, default |-> PyNone, fresh |-> FALSE]
NoList == [rows |-> <<>>, fresh |-> FALSE]
NoDelete == [key |-> "", result |-> FALSE, existed |-> FALSE, unchanged |-> FALSE,
             fresh |-> FALSE]
NoActivate == [name |-> "", before |-> {}, existed |-> FALSE]

(***************************************************************************)
(* SettingsManager.set                                                     *)
(***************************************************************************)
\* the text set() stores for a value
StoredText(value) == IF value.type = "str" THEN value.text ELSE json_dumps(value)

\* the cell a manager whose cipher has the given key stores
StoredCellBy(key, value, encrypted) ==
    IF encrypted THEN Seal(key, StoredText(value)) ELSE Plain(StoredText(value))

StoredCell(value, encrypted) ==
    IF encrypted THEN _encrypt_value(StoredText(value)) ELSE Plain(StoredText(value))

\* INSERT OR REPLACE INTO settings (key, value, encrypted, description, updated_at):
\* the old row, if any, is deleted and a new one inserted, created_at taking its default
Upsert(table, key, row) ==
    [x \in DOMAIN table \cup {key} |-> IF x = key THEN row ELSE table[x]]

\* the row the INSERT writes at time at: updated_at is given CURRENT_TIMESTAMP,
\* created_at is not in the column list and takes its DEFAULT CURRENT_TIMESTAMP
SettingRow(cell, encrypted, description, at) ==
    [value |-> cell, encrypted |-> encrypted,
     description |-> description, created_at |-> at, updated_at |-> at]

\* the settings table after a set() at time at that stores cell under key
SetRows(table, key, cell, encrypted, description, at) ==
    Upsert(table, key, SettingRow(cell, encrypted, description, at))

\* set() of a manager whose cipher has the given key
SetBy(cipher, key, value, encrypted, description) ==
    /\ settings' = SetRows(settings, key, StoredCellBy(cipher, value, encrypted), encrypted,
                           description, now)
    /\ lastSet' = Upsert(lastSet, key,
            [value |-> value, encrypted |-> encrypted,
             first |-> IF key \in DOMAIN lastSet THEN lastSet[key].first ELSE now,
             at |-> now])
    /\ got' = NoGet
    /\ listed' = NoList
    /\ lastDelete' = NoDelete
    /\ UNCHANGED <<now, profileVars, keyVars, txnVars, uiVars, backupVars>>

Set(key, value, encrypted, description) ==
    /\ settings' = SetRows(settings, key, StoredCell(value, encrypted), encrypted,
                           description, now)
    /\ lastSet' = Upsert(lastSet, key,
            [value |-> value, encrypted |-> encrypted,
             first |-> IF key \in DOMAIN lastSet THEN lastSet[key].first ELSE now,
             at |-> now])
    /\ got' = NoGet
    /\ listed' = NoList
    /\ lastDelete' = NoDelete
    /\ UNCHANGED <<now, profileVars, keyVars, txnVars, uiVars, backupVars>>

\* set_github_token(token)
SetGithubToken(token) ==
    Set("github_token", PyStr(token), TRUE, "GitHub Personal Access Token")

(***************************************************************************)
(* SettingsManager.get                                                     *)
(***************************************************************************)
\* what get() returns for a stored row
\* what get() of a manager whose cipher has the given key returns for a stored row
GetValueBy(cipher, row) ==
    LET value == IF row.encrypted THEN _decrypt_value(row.value) ELSE row.value.text
    IN  IF row.encrypted /\ ~Opens(cipher, row.value) THEN [type |-> "InvalidToken", text |-> ""]
        ELSE IF value \in JsonTexts THEN json_loads(value)
        ELSE PyStr(value)

GetValue(row) ==
    LET value == IF row.encrypted THEN _decrypt_value(row.value) ELSE row.value.text
    IN  IF row.encrypted /\ ~CanDecrypt(row.value) THEN [type |-> "InvalidToken", text |-> ""]
        ELSE IF value \in JsonTexts THEN json_loads(value)
        ELSE PyStr(value)

GetBy(cipher, key, default) ==
    /\ got' = [key |-> key,
               value |-> IF key \in DOMAIN settings THEN GetValueBy(cipher, settings[key])
                         ELSE default,
               default |-> default,
               fresh |-> TRUE]
    /\ UNCHANGED <<now, settings, lastSet, listed, lastDelete, profileVars, keyVars,
                 txnVars, uiVars, backupVars>>

Get(key, default) ==
    /\ got' = [key |-> key,
               value |-> IF key \in DOMAIN settings THEN GetValue(settings[key]) ELSE default,
               default |-> default,
               fresh |-> TRUE]
    /\ UNCHANGED <<now, settings, lastSet, listed, lastDelete, profileVars, keyVars,
                 txnVars, uiVars, backupVars>>

(***************************************************************************)
(* SettingsManager.delete                                                  *)
(***************************************************************************)
Remove(table, key) == [x \in DOMAIN table \ {key} |-> table[x]]

\* cursor.rowcount >= 0: true of every DELETE
DeleteResultAlways(table, key) == TRUE

\* cursor.rowcount > 0
DeleteResult(table, key) == key \in DOMAIN table

Delete(key) ==
    /\ settings' = Remove(settings, key)
    /\ lastSet' = Remove(lastSet, key)
    /\ got' = NoGet
    /\ listed' = NoList
    /\ lastDelete' = [key |-> key, result |-> DeleteResult(settings, key),
                      existed |-> key \in DOMAIN lastSet,
                      unchanged |-> settings' = settings, fresh |-> TRUE]
    /\ UNCHANGED <<now, profileVars, keyVars, txnVars, uiVars, backupVars>>

(***************************************************************************)
(* SettingsManager.list_settings                                           *)
(***************************************************************************)
\* ORDER BY key: the keys of the model in ascending order
KeysAscending == <<"github_token", "k">>

\* SELECT *: the listing with the stored value in every entry
list_settings_with_values(table) ==
    LET keys == SelectSeq(KeysAscending, LAMBDA k : k \in DOMAIN table)
    IN  [n \in DOMAIN keys |->
            [key |-> keys[n],
             info |-> [value |-> table[keys[n]].value,
                       encrypted |-> table[keys[n]].encrypted,
                       description |-> table[keys[n]].description,
                       created_at |-> table[keys[n]].created_at,
                       updated_at |-> table[keys[n]].updated_at]]]

\* SELECT key, encrypted, description, created_at, updated_at FROM settings ORDER BY key;
\* the dict is filled row by row, so it lists the keys in that order
list_settings(table) ==
    LET keys == SelectSeq(KeysAscending, LAMBDA k : k \in DOMAIN table)
    IN  [n \in DOMAIN keys |->
            [key |-> keys[n],
             info |-> [encrypted |-> table[keys[n]].encrypted,
                       description |-> table[keys[n]].description,
                       created_at |-> table[keys[n]].created_at,
                       updated_at |-> table[keys[n]].updated_at]]]

ListSettings ==
    /\ listed' = [rows |-> list_settings(settings), fresh |-> TRUE]
    /\ UNCHANGED <<now, settings, got, lastSet, lastDelete, profileVars, keyVars,
                 txnVars, uiVars, backupVars>>

(***************************************************************************)
(* SettingsManager.__init__ and _get_or_create_encryption_key: the key     *)
(* file, and the steps of a manager's construction                         *)
(***************************************************************************)
Managers == {1, 2}

\* chmod(0o600)
OwnerOnly == 384

\* the mode open() gives a new file: 0o666 less the umask, 022 or 077
CreateModes == {420, 384}

\* the keys Fernet accepts: 32 url-safe base64-encoded bytes
ValidKeys == {"key1", "key2", "key9"}

\* Fernet.generate_key(): fresh random bytes, a different key in every call
generate_key(m) == IF m = 1 THEN "key1" ELSE "key2"

NoKeyFile == [exists |-> FALSE, content |-> "", mode |-> 0, damage |-> ""]
NewManager == [pc |-> "new", key |-> "", error |-> "", damaged |-> FALSE]

OwnerCanRead(file) == (file.mode \div 256) % 2 = 1
OwnerCanWrite(file) == (file.mode \div 128) % 2 = 1

\* an exception leaves __init__: there is no manager
Fails(m, error) ==
    manager' = [manager EXCEPT ![m].pc = "failed", ![m].error = error,
                               ![m].damaged = key_file.damage # ""]

\* if key_file.exists():
KeyFileExists(m) ==
    /\ manager[m].pc = "new"
    /\ manager' = [manager EXCEPT ![m].pc = IF key_file.exists THEN "read" ELSE "generate"]
    /\ UNCHANGED <<now, settingsVars, profileVars, key_file, txnVars, uiVars, backupVars>>

\* return key_file.read_bytes()
ReadKey(m) ==
    /\ manager[m].pc = "read"
    /\ IF OwnerCanRead(key_file)
       THEN manager' = [manager EXCEPT ![m].pc = "cipher", ![m].key = key_file.content]
       ELSE Fails(m, "PermissionError")
    /\ UNCHANGED <<now, settingsVars, profileVars, key_file, txnVars, uiVars, backupVars>>

\* key = Fernet.generate_key(), and the open() of key_file.write_bytes(key): the file
\* is created with the mode the umask leaves, or truncated if it is there by now
OpenKeyFile(m, mode) ==
    /\ manager[m].pc = "generate"
    /\ IF key_file.exists /\ ~OwnerCanWrite(key_file)
       THEN /\ Fails(m, "PermissionError")
            /\ UNCHANGED key_file
       ELSE /\ manager' = [manager EXCEPT ![m].pc = "write", ![m].key = generate_key(m)]
            /\ key_file' = [key_file EXCEPT !.exists = TRUE, !.content = "",
                                            !.mode = IF key_file.exists THEN @ ELSE mode]
    /\ UNCHANGED <<now, settingsVars, profileVars, txnVars, uiVars, backupVars>>

\* the write() and close() of key_file.write_bytes(key)
WriteKey(m) ==
    /\ manager[m].pc = "write"
    /\ manager' = [manager EXCEPT ![m].pc = "chmod"]
    /\ key_file' = [key_file EXCEPT !.content = manager[m].key]
    /\ UNCHANGED <<now, settingsVars, profileVars, txnVars, uiVars, backupVars>>

\* key_file.chmod(0o600); return key
ChmodKey(m) ==
    /\ manager[m].pc = "chmod"
    /\ manager' = [manager EXCEPT ![m].pc = "cipher"]
    /\ key_file' = [key_file EXCEPT !.mode = OwnerOnly]
    /\ UNCHANGED <<now, settingsVars, profileVars, txnVars, uiVars, backupVars>>

\* self.cipher = Fernet(self.encryption_key): ValueError unless the key is 32
\* url-safe base64-encoded bytes; then _init_database()
MakeCipher(m) ==
    /\ manager[m].pc = "cipher"
    /\ IF manager[m].key \in ValidKeys
       THEN manager' = [manager EXCEPT ![m].pc = "ready"]
       ELSE Fails(m, "ValueError")
    /\ UNCHANGED <<now, settingsVars, profileVars, key_file, txnVars, uiVars, backupVars>>

\* set_github_token(token) on a constructed manager
ManagerSetToken(m, token) ==
    /\ manager[m].pc = "ready"
    /\ SetBy(manager[m].key, "github_token", PyStr(token), TRUE, "GitHub Personal Access Token")

\* get_github_token() on a constructed manager
ManagerGetToken(m) ==
    /\ manager[m].pc = "ready"
    /\ GetBy(manager[m].key, "github_token", PyNone)

\* what can happen to the key file from outside once it holds a key: its permissions
\* are taken away, its bytes are mangled, or another key is put in its place
Damages == {"unreadable", "garbage", "replaced"}

Damage(kind) ==
    /\ key_file.exists
    /\ key_file.content \in ValidKeys
    /\ key_file.damage = ""
    /\ key_file' = CASE kind = "unreadable" -> [key_file EXCEPT !.mode = 0, !.damage = kind]
                     [] kind = "garbage" -> [key_file EXCEPT !.content = "garbage",
                                                            !.damage = kind]
                     [] kind = "replaced" -> [key_file EXCEPT !.content = "key9",
                                                             !.damage = kind]
    /\ UNCHANGED <<now, settingsVars, profileVars, manager, txnVars, uiVars, backupVars>>

(***************************************************************************)
(* Profiles                                                                *)
(***************************************************************************)
\* INSERT OR REPLACE INTO profiles (name, settings, updated_at): active takes its
\* default, FALSE
ProfileRow(settings_dict, at) ==
    [settings |-> settings_dict, active |-> FALSE, created_at |-> at, updated_at |-> at]

NewProfileRow(settings_dict) == ProfileRow(settings_dict, now)

create_profile(name, settings_dict) ==
    /\ profiles' = Upsert(profiles, name, NewProfileRow(settings_dict))
    /\ lastActivate' = NoActivate
    /\ UNCHANGED <<now, settingsVars, keyVars, txnVars, uiVars, backupVars>>

\* set_active_profile without its first UPDATE: nothing is deactivated
ActivatedKeepingOthers(table, name) ==
    [x \in DOMAIN table |-> [table[x] EXCEPT !.active = (@ \/ x = name)]]

\* UPDATE profiles SET active = NOT active WHERE name = ? in place of the second UPDATE
ActivatedByToggle(table, name) ==
    [x \in DOMAIN table |-> [table[x] EXCEPT !.active = (x = name /\ ~@)]]

\* UPDATE profiles SET active = FALSE; UPDATE profiles SET active = TRUE WHERE name = ?
\* (one transaction)
Activated(table, name) ==
    [x \in DOMAIN table |-> [table[x] EXCEPT !.active = (x = name)]]

ActiveProfiles == {x \in DOMAIN profiles : profiles[x].active}

set_active_profile(name) ==
    /\ profiles' = Activated(profiles, name)
    /\ lastActivate' = [name |-> name, before |-> ActiveProfiles,
                        existed |-> name \in DOMAIN profiles]
    /\ UNCHANGED <<now, settingsVars, keyVars, txnVars, uiVars, backupVars>>

\* SELECT name FROM profiles WHERE active = TRUE; fetchone()
get_active_profile == IF ActiveProfiles = {} THEN {} ELSE {CHOOSE x \in ActiveProfiles : TRUE}

(***************************************************************************)
(* set_active_profile statement by statement, with another process reading *)
(* the same database: sqlite3 opens a transaction before the first UPDATE  *)
(* and conn.commit() ends it                                               *)
(***************************************************************************)
NoTxn == [open |-> FALSE, name |-> "", done |-> 0, table |-> <<>>, before |-> {}]
NoSeen == [value |-> {}, active |-> 0, during |-> FALSE, from |-> {}, to |-> ""]

\* UPDATE profiles SET active = FALSE
Deactivated(table) == [x \in DOMAIN table |-> [table[x] EXCEPT !.active = FALSE]]

\* UPDATE profiles SET active = TRUE WHERE name = ?
ActivatedOne(table, name) ==
    [x \in DOMAIN table |-> [table[x] EXCEPT !.active = (@ \/ x = name)]]

\* SELECT name FROM profiles WHERE active = TRUE
ActiveIn(table) == {x \in DOMAIN table : table[x].active}

\* fetchone(): a row or None
FetchOne(rows) == IF rows = {} THEN {} ELSE {CHOOSE x \in rows : TRUE}

\* a connection that reads the writer's uncommitted changes (read_uncommitted on a
\* shared cache)
VisibleUncommitted(committed, t) == IF t.open THEN t.table ELSE committed

\* what another connection reads while the transaction t is open: the committed table
Visible(committed, t) == committed

\* with sqlite3.connect(...) as conn: conn.execute("UPDATE profiles SET active = FALSE")
DeactivateAll(name) ==
    /\ ~txn.open
    /\ txn' = [open |-> TRUE, name |-> name, done |-> 1, table |-> Deactivated(profiles),
               before |-> ActiveProfiles]
    /\ UNCHANGED <<now, settingsVars, profileVars, keyVars, seen, uiVars, backupVars>>

\* conn.execute("UPDATE profiles SET active = TRUE WHERE name = ?", (name,))
ActivateNamed ==
    /\ txn.open
    /\ txn.done = 1
    /\ txn' = [txn EXCEPT !.done = 2, !.table = ActivatedOne(@, txn.name)]
    /\ UNCHANGED <<now, settingsVars, profileVars, keyVars, seen, uiVars, backupVars>>

\* conn.commit()
CommitActive ==
    /\ txn.open
    /\ txn.done = 2
    /\ profiles' = txn.table
    /\ lastActivate' = [name |-> txn.name, before |-> txn.before,
                        existed |-> txn.name \in DOMAIN profiles]
    /\ txn' = NoTxn
    /\ UNCHANGED <<now, settingsVars, keyVars, seen, uiVars, backupVars>>

\* get_active_profile() of another process
ReadActive ==
    /\ LET table == Visible(profiles, txn)
       IN  seen' = [value |-> FetchOne(ActiveIn(table)),
                    active |-> Cardinality(ActiveIn(table)),
                    during |-> txn.open, from |-> txn.before, to |-> txn.name]
    /\ UNCHANGED <<now, settingsVars, profileVars, keyVars, txn, uiVars, backupVars>>

\* create_profile while no set_active_profile is under way
CreateProfileBetween(name, settings_dict) ==
    /\ ~txn.open
    /\ profiles' = Upsert(profiles, name, NewProfileRow(settings_dict))
    /\ lastActivate' = NoActivate
    /\ seen' = NoSeen
    /\ UNCHANGED <<now, settingsVars, keyVars, txn, uiVars, backupVars>>

(***************************************************************************)
(* The store operations as functions of the two tables: a call, applied to *)
(* a store at a time, gives the store it leaves and what it returns        *)
(***************************************************************************)
SetCall(key, value, encrypted, description) ==
    [op |-> "set", name |-> key, value |-> value, encrypted |-> encrypted,
     text |-> description]
DeleteCall(key) ==
    [op |-> "delete", name |-> key, value |-> PyNone, encrypted |-> FALSE, text |-> ""]
CreateProfileCall(name, settings_dict) ==
    [op |-> "create_profile", name |-> name, value |-> PyNone, encrypted |-> FALSE,
     text |-> settings_dict]
SetActiveProfileCall(name) ==
    [op |-> "set_active_profile", name |-> name, value |-> PyNone, encrypted |-> FALSE,
     text |-> ""]

Apply(store, call, at) ==
    CASE call.op = "set" ->
            [settings |-> SetRows(store.settings, call.name,
                                  StoredCell(call.value, call.encrypted), call.encrypted,
                                  call.text, at),
             profiles |-> store.profiles, result |-> "None"]
      [] call.op = "delete" ->
            [settings |-> Remove(store.settings, call.name),
             profiles |-> store.profiles,
             result |-> IF DeleteResult(store.settings, call.name) THEN "True" ELSE "False"]
      [] call.op = "create_profile" ->
            [settings |-> store.settings,
             profiles |-> Upsert(store.profiles, call.name, ProfileRow(call.text, at)),
             result |-> "None"]
      [] call.op = "set_active_profile" ->
            [settings |-> store.settings,
             profiles |-> Activated(store.profiles, call.name),
             result |-> "None"]

(***************************************************************************)
(* The account on GitHub                                                   *)
(***************************************************************************)
login == "me"

Repo(owner, name, private) ==
    [owner |-> owner, name |-> name, full_name |-> owner \o "/" \o name, private |-> private]

\* two owned repositories, and two of an organisation the user is a member of
RepoPool ==
    <<Repo("me", "a", FALSE), Repo("me", "b", TRUE), Repo("org", "a", FALSE),
      Repo("org", "c", TRUE)>>

RECURSIVE Pick(_, _)
\* the repositories of RepoPool at the positions in idx, in the pool's order
Pick(idx, from) ==
    IF from > Len(RepoPool) THEN <<>>
    ELSE IF from \in idx THEN <<RepoPool[from]>> \o Pick(idx, from + 1)
    ELSE Pick(idx, from + 1)

Accounts == {Pick(idx, 1) : idx \in {x \in SUBSET (1..Len(RepoPool)) : Cardinality(x) <= MaxRepos}}

Range(seq) == {seq[i] : i \in DOMAIN seq}

\* user.public_repos and user.total_private_repos: the repositories the user owns
public_repos == Cardinality({r \in Range(account) : r.owner = login /\ ~r.private})
total_private_repos == Cardinality({r \in Range(account) : r.owner = login /\ r.private})

(***************************************************************************)
(* Text: a string is the sequence of its parts, so that what a string      *)
(* embeds can be asked of it.                                              *)
(***************************************************************************)
Contains(text, part) == \E i \in DOMAIN text : text[i] = part

\* f"https://{self.token}@github.com/{repo.full_name}.git"
clone_url(token, repo) == <<"https://", token, "@github.com/", repo.full_name, ".git">>

(***************************************************************************)
(* The backup directory                                                    *)
(***************************************************************************)
Runs == {1, 2}
Modes == {"cli", "tui_full", "tui_selective"}
Selections == {{"a"}, {"a", "b"}, {"b", "zz"}}

NoRoot == [login |-> "", timestamp |-> -1]
NoSummary == [repositories_count |-> -1, status |-> ""]

\* self.backup_dir / f"github_backup_{self.user.login}_{timestamp}"
BackupRoot(timestamp) == [login |-> login, timestamp |-> timestamp]

Directories ==
    {"repositories", "metadata", "issues_prs", "wikis", "releases", "gists", "settings"}

Dir(root, path, r) ==
    [root |-> root, path |-> path, kind |-> "dir", content |-> <<>>,
     summary |-> NoSummary, by |-> r]
File(root, path, content, r) ==
    [root |-> root, path |-> path, kind |-> "file", content |-> content,
     summary |-> NoSummary, by |-> r]

Exists(fs, root, path) == \E f \in fs : f.root = root /\ f.path = path

\* open(path, 'w') and json.dump: the file is created or overwritten
Write(fs, new) == {f \in fs : ~(f.root = new.root /\ f.path = new.path)} \cup {new}

\* mkdir(exist_ok=True): an existing directory is left as it is
Mkdir(fs, new) == IF Exists(fs, new.root, new.path) THEN fs ELSE fs \cup {new}

Msg(level, text) == [level |-> level, text |-> text]

(***************************************************************************)
(* GitHubBackup.__init__, and the entry that constructs it: the backup     *)
(* command, action_start_backup or action_backup_selected_repos            *)
(***************************************************************************)
\* ProgressBar(total=100, id="repo_progress"): a value is kept as the fraction the
\* code computes it from
NewBar == [total |-> 100, progress |-> [num |-> 0, den |-> 1]]

\* progress_value = ((i + 1) / total_repos) * 100, i counting from 0
ProgressValue(i, total_repos) == [num |-> (i + 1) * 100, den |-> total_repos]

NoFetch == [repo |-> "", descriptive |-> "", issues |-> "", releases |-> ""]

NewRun ==
    [pc |-> "new", mode |-> "", token |-> "", backup_root |-> NoRoot, selected_repos |-> {},
     enumerated |-> <<>>, repos |-> <<>>, i |-> 0, clone_success |-> 0, clone_failures |-> 0,
     gists |-> FALSE, cause |-> "", cancelled |-> FALSE, cancelled_at |-> -1,
     fetched |-> NoFetch, bar |-> NewBar]

Construct(r, mode, selected) ==
    /\ run[r].pc = "new"
    /\ "github_token" \in DOMAIN settings
    /\ mode = "tui_selective" <=> selected # {}
    /\ LET token == GetValue(settings["github_token"])
       IN  /\ token.type # "InvalidToken"
           /\ run' = [run EXCEPT ![r] = [NewRun EXCEPT !.pc = IF mode = "cli" THEN "start"
                                                                 ELSE "mounted",
                                                          !.mode = mode,
                                           !.token = token.text, !.selected_repos = selected]]
    \* logging.FileHandler(log_file, mode='w')
    /\ log' = {Msg("INFO", <<"Starting GitHub backup session">>),
               Msg("INFO", <<"User: ", login>>)}
    /\ UNCHANGED <<now, settingsVars, profileVars, keyVars, txnVars, uiVars, account, files>>

\* an exception leaves the run: run_backup logs it and re-raises, the screens write it
\* to their own widget and re-raise
Raise(r, cause) ==
    /\ run' = [run EXCEPT ![r].pc = "failed", ![r].cause = cause]
    /\ log' = IF run[r].mode = "cli" THEN log \cup {Msg("ERROR", <<"Backup failed: ", cause>>)}
              ELSE log

(***************************************************************************)
(* GitHubBackup.create_backup_structure                                    *)
(***************************************************************************)
create_backup_structure(r, ok) ==
    /\ run[r].pc = "start"
    /\ LET root == BackupRoot(now)
       IN  IF ok
           THEN /\ run' = [run EXCEPT ![r].pc = "structure_created", ![r].backup_root = root]
                /\ files' = files \cup
                       {Dir(root, <<d>>, r) : d \in {x \in Directories : ~Exists(files, root, <<x>>)}}
                /\ log' = log \cup {Msg("INFO", <<"Created backup structure">>)}
           ELSE /\ Raise(r, "create_backup_structure")
                /\ UNCHANGED files
    /\ UNCHANGED <<now, settingsVars, profileVars, keyVars, txnVars, uiVars, account>>

(***************************************************************************)
(* GitHubBackup.backup_user_metadata                                       *)
(***************************************************************************)
backup_user_metadata(r, ok, keys) ==
    /\ run[r].pc = "structure_created"
    /\ LET root == run[r].backup_root
           profile == File(root, <<"metadata", "user_profile.json">>, <<"profile of ", login>>, r)
           ssh_keys == File(root, <<"settings", "ssh_keys.json">>, <<"ssh keys of ", login>>, r)
       IN  IF ok
           THEN /\ run' = [run EXCEPT ![r].pc = "account_metadata_done"]
                /\ files' = IF keys THEN Write(Write(files, profile), ssh_keys)
                            ELSE Write(files, profile)
                /\ log' = log \cup {Msg("INFO", <<"Starting user metadata backup">>),
                                    Msg("INFO", <<"Saved user profile">>)}
                              \cup (IF keys THEN {}
                                    ELSE {Msg("WARNING", <<"Could not backup SSH keys">>)})
           ELSE /\ keys
                /\ Raise(r, "backup_user_metadata")
                /\ UNCHANGED files
    /\ UNCHANGED <<now, settingsVars, profileVars, keyVars, txnVars, uiVars, account>>

(***************************************************************************)
(* BackupProgressScreen.on_mount / run_backup and their selective twins:   *)
(* the task is created on mount and hands the run to an executor thread    *)
(***************************************************************************)
Dispatch(r) ==
    /\ run[r].pc = "mounted"
    /\ run' = [run EXCEPT ![r].pc = "start"]
    /\ UNCHANGED <<now, settingsVars, profileVars, keyVars, txnVars, uiVars, account, files, log>>

(***************************************************************************)
(* GitHubBackup.get_all_repositories, called by backup_repositories or by  *)
(* _backup_selected_repositories                                           *)
(***************************************************************************)
Digits == <<"0", "1", "2", "3", "4", "5", "6", "7", "8", "9">>
Str(n) == IF n < Len(Digits) THEN Digits[n + 1] ELSE "many"

get_all_repositories == account

\* [repo for repo in all_repos if repo.name in self.selected_repos]
Selected(all_repos, selected_repos) ==
    SelectSeq(all_repos, LAMBDA repo : repo.name \in selected_repos)

Scope(r, all_repos) ==
    IF run[r].mode = "tui_selective" THEN Selected(all_repos, run[r].selected_repos)
    ELSE all_repos

Enumerate(r, ok) ==
    /\ run[r].pc = "account_metadata_done"
    /\ IF ok
       THEN /\ run' = [run EXCEPT ![r].pc = "repos", ![r].enumerated = get_all_repositories,
                                  ![r].repos = Scope(r, get_all_repositories), ![r].i = 0,
                                  ![r].clone_success = 0, ![r].clone_failures = 0,
                                  \* repo_progress.update(total=total_repos * 100)
                                  ![r].bar.total =
                                      IF run[r].mode = "tui_selective"
                                      THEN Len(Scope(r, get_all_repositories)) * 100
                                      ELSE @]
            /\ log' = IF run[r].mode = "tui_selective" THEN log
                      ELSE log \cup {Msg("INFO", <<"Starting backup of ",
                                                   Str(Len(get_all_repositories)),
                                                   " repositories">>)}
       ELSE Raise(r, "get_all_repositories")
    /\ UNCHANGED <<now, settingsVars, profileVars, keyVars, txnVars, uiVars, account, files>>

(***************************************************************************)
(* One repository of the loop: its directory and GitHubBackup.clone_repository *)
(***************************************************************************)
RepoDir(repo) == <<"repositories", repo.name>>
GitDir(repo) == <<"repositories", repo.name, "git">>

\* git clone --mirror records the URL it was given as remote.origin.url
GitConfig(root, repo, url, r) ==
    File(root, GitDir(repo) \o <<"config">>, <<"[remote \"origin\"] url = ">> \o url, r)

\* str(e) of a GitCommandError names the command line; whether the URL in it is shown
\* as given or masked depends on the GitPython and git at hand
GitErrorText(url, masked) ==
    IF masked THEN <<"git clone --mirror ", "*****">> ELSE <<"git clone --mirror ">> \o url

\* what Repo.clone_from does: it returns, or raises GitCommandError, or raises something
\* else (OSError, ...)
CloneOutcomes == {"ok", "GitCommandError", "Exception"}

\* clone_repository with its second handler missing: only GitCommandError is caught
CloneReturnsGitOnly(outcome) ==
    CASE outcome = "ok" -> "True"
      [] outcome = "GitCommandError" -> "False"
      [] OTHER -> "raise"

\* what clone_repository returns: the body is one try with except GitCommandError and
\* except Exception, both returning False
CloneReturns(outcome) ==
    CASE outcome = "ok" -> "True"
      [] outcome = "GitCommandError" -> "False"
      [] outcome = "Exception" -> "False"

CloneLog(r, repo, outcome, masked) ==
    {Msg("INFO", <<"Cloning ", repo.full_name>>), Msg("INFO", <<"Repository details">>)}
    \cup (CASE outcome = "ok" -> {Msg("INFO", <<"Successfully cloned ", repo.full_name>>)}
            [] outcome = "GitCommandError" ->
                    {Msg("ERROR", <<"Git command failed for ", repo.full_name, ": ">>
                                  \o GitErrorText(clone_url(run[r].token, repo), masked))}
            [] OTHER -> IF CloneReturns(outcome) = "raise" THEN {}
                        ELSE {Msg("ERROR", <<"Unexpected error cloning ", repo.full_name>>)})

LoopLog(r, repo, returned) ==
    IF run[r].mode = "tui_selective" THEN {}
    ELSE {Msg("INFO", <<"Processing repository: ", repo.full_name>>)}
         \cup (CASE returned = "True" ->
                        {Msg("INFO", <<"Backing up metadata for ", repo.full_name>>)}
                 [] returned = "False" ->
                        {Msg("INFO", <<"Backing up metadata for ", repo.full_name>>),
                         Msg("ERROR", <<"Failed to clone ", repo.full_name>>)}
                 [] OTHER ->
                        IF run[r].mode = "cli"
                        THEN {Msg("ERROR", <<"Backup failed: ", "clone_repository">>)}
                        ELSE {})

\* the directory of the repository is made by the loop, then clone_repository is called
clone_repository(r, repo, outcome, masked) ==
    /\ outcome = "ok" => ~Exists(files, run[r].backup_root, GitDir(repo) \o <<"config">>)
    /\ outcome # "GitCommandError" => masked
    /\ files' = LET made == Mkdir(files, Dir(run[r].backup_root, RepoDir(repo), r))
                IN  IF outcome = "ok"
                    THEN Write(made, GitConfig(run[r].backup_root, repo,
                                               clone_url(run[r].token, repo), r))
                    ELSE made
    /\ log' = log \cup CloneLog(r, repo, outcome, masked)
                  \cup LoopLog(r, repo, CloneReturns(outcome))

\* the loop with the metadata fetch handed to a worker that is not awaited: the next
\* repository starts as soon as the clone has returned
CloneStepWithoutWaiting(r, outcome, masked) ==
    /\ run[r].pc = "repos"
    /\ run[r].i < Len(run[r].repos)
    /\ clone_repository(r, run[r].repos[run[r].i + 1], outcome, masked)
    /\ run' = LET returned == CloneReturns(outcome)
              IN  [run EXCEPT ![r].i = @ + 1,
                              ![r].clone_success = @ + (IF returned = "True" THEN 1 ELSE 0),
                              ![r].clone_failures = @ + (IF returned = "False" THEN 1 ELSE 0)]
    /\ UNCHANGED <<now, settingsVars, profileVars, keyVars, txnVars, uiVars, account>>

CloneStep(r, outcome, masked) ==
    /\ run[r].pc = "repos"
    /\ run[r].i < Len(run[r].repos)
    /\ clone_repository(r, run[r].repos[run[r].i + 1], outcome, masked)
    /\ run' = LET returned == CloneReturns(outcome)
              IN  IF returned = "raise"
                  THEN [run EXCEPT ![r].pc = "failed", ![r].cause = "clone_repository"]
                  ELSE [run EXCEPT ![r].pc = "metadata",
                                   ![r].clone_success = @ + (IF returned = "True" THEN 1 ELSE 0),
                                   ![r].clone_failures = @ + (IF returned = "False" THEN 1 ELSE 0)]
    /\ UNCHANGED <<now, settingsVars, profileVars, keyVars, txnVars, uiVars, account>>

(***************************************************************************)
(* GitHubBackup.backup_repository_metadata                                 *)
(***************************************************************************)
Outcomes == {"ok", "GithubException", "Exception"}

\* the files the call has written when it returns or raises
MetadataFiles(root, repo, descriptive, issues, releases, r) ==
    LET dir == RepoDir(repo)
    IN  (IF descriptive = "ok"
         THEN {File(root, dir \o <<"metadata.json">>, <<"metadata of ", repo.full_name>>, r)}
         ELSE {})
        \cup (IF descriptive = "ok" /\ issues = "ok"
              THEN {File(root, dir \o <<"issues.json">>, <<"issues of ", repo.full_name>>, r)}
              ELSE {})
        \cup (IF descriptive = "ok" /\ issues # "Exception" /\ releases = "ok"
              THEN {File(root, dir \o <<"releases.json">>, <<"releases of ", repo.full_name>>, r)}
              ELSE {})

\* repo.get_topics() is called outside any try; the two try blocks catch GithubException only
MetadataRaises(descriptive, issues, releases) ==
    \/ descriptive # "ok"
    \/ issues = "Exception"
    \/ releases = "Exception"

MetadataLog(repo, descriptive, issues, releases) ==
    (IF descriptive = "ok" /\ issues = "GithubException"
     THEN {Msg("WARNING", <<"Could not backup issues for ", repo.full_name>>)} ELSE {})
    \cup (IF descriptive = "ok" /\ issues # "Exception" /\ releases = "GithubException"
          THEN {Msg("WARNING", <<"Could not backup releases for ", repo.full_name>>)} ELSE {})

WriteAll(fs, new) == {f \in fs : ~\E n \in new : f.root = n.root /\ f.path = n.path} \cup new

backup_repository_metadata(r, descriptive, issues, releases) ==
    /\ run[r].pc = "metadata"
    /\ LET repo == run[r].repos[run[r].i + 1]
           fetched == [repo |-> repo.name, descriptive |-> descriptive, issues |-> issues,
                       releases |-> releases]
       IN  /\ files' = WriteAll(files, MetadataFiles(run[r].backup_root, repo,
                                                     descriptive, issues, releases, r))
           /\ IF MetadataRaises(descriptive, issues, releases)
              THEN /\ run' = [run EXCEPT ![r].pc = "failed",
                                         ![r].cause = "backup_repository_metadata",
                                         ![r].fetched = fetched]
                   /\ log' = log \cup MetadataLog(repo, descriptive, issues, releases)
                                 \cup (IF run[r].mode = "cli"
                                       THEN {Msg("ERROR", <<"Backup failed: ",
                                                            "backup_repository_metadata">>)}
                                       ELSE {})
              ELSE /\ run' = [run EXCEPT ![r].pc = "repos", ![r].i = @ + 1,
                                         ![r].fetched = fetched,
                                         \* repo_progress.update(progress=progress_value)
                                         ![r].bar.progress =
                                             IF run[r].mode = "tui_selective"
                                             THEN ProgressValue(run[r].i, Len(run[r].repos))
                                             ELSE @]
                   /\ log' = log \cup MetadataLog(repo, descriptive, issues, releases)
    /\ UNCHANGED <<now, settingsVars, profileVars, keyVars, txnVars, uiVars, account>>

\* the loop is over
FinishRepos(r) ==
    /\ run[r].pc = "repos"
    /\ run[r].i = Len(run[r].repos)
    /\ run' = [run EXCEPT ![r].pc = "repos_done"]
    /\ log' = IF run[r].mode = "tui_selective" THEN log
              ELSE log \cup {Msg("INFO", <<"Repository backup completed: ",
                                           Str(run[r].clone_success), " successful, ",
                                           Str(run[r].clone_failures), " failed">>)}
    /\ UNCHANGED <<now, settingsVars, profileVars, keyVars, txnVars, uiVars, account, files>>

(***************************************************************************)
(* GitHubBackup.backup_gists, which a selective run skips                  *)
(***************************************************************************)
backup_gists(r, outcome) ==
    /\ run[r].pc = "repos_done"
    /\ run[r].mode # "tui_selective"
    /\ IF outcome = "Exception"
       THEN /\ run' = [run EXCEPT ![r].pc = "failed", ![r].cause = "backup_gists",
                                  ![r].gists = TRUE]
            /\ log' = IF run[r].mode = "cli"
                      THEN log \cup {Msg("ERROR", <<"Backup failed: ", "backup_gists">>)}
                      ELSE log
            /\ UNCHANGED files
       ELSE /\ run' = [run EXCEPT ![r].pc = "gists_done", ![r].gists = TRUE]
            /\ files' = IF outcome = "ok"
                        THEN Write(files, File(run[r].backup_root, <<"gists", "gists.json">>,
                                               <<"gists of ", login>>, r))
                        ELSE files
            /\ log' = IF outcome = "ok" THEN log
                      ELSE log \cup {Msg("ERROR", <<"Failed to backup gists">>)}
    /\ UNCHANGED <<now, settingsVars, profileVars, keyVars, txnVars, uiVars, account>>

SkipGists(r) ==
    /\ run[r].pc = "repos_done"
    /\ run[r].mode = "tui_selective"
    /\ run' = [run EXCEPT ![r].pc = "gists_done"]
    /\ UNCHANGED <<now, settingsVars, profileVars, keyVars, txnVars, uiVars, account, files, log>>

(***************************************************************************)
(* The end of a run: run_backup writes backup_summary.json, the screens    *)
(* report completion                                                       *)
(***************************************************************************)
Summary(r) ==
    [File(run[r].backup_root, <<"backup_summary.json">>, <<"summary of ", login>>, r)
        EXCEPT !.summary = [repositories_count |-> public_repos + total_private_repos,
                            status |-> "completed"]]

\* run_backup with the summary written before the gists are backed up
WriteSummaryBeforeGists(r, ok) ==
    /\ run[r].pc = "repos_done"
    /\ run[r].mode = "cli"
    /\ ok
    /\ run' = [run EXCEPT ![r].pc = "complete"]
    /\ files' = Write(files, Summary(r))
    /\ UNCHANGED log
    /\ UNCHANGED <<now, settingsVars, profileVars, keyVars, txnVars, uiVars, account>>

\* run_backup swallowing the error of the summary's write: it returns with neither a
\* manifest nor an exception
WriteSummarySwallowingErrors(r, ok) ==
    /\ run[r].pc = "gists_done"
    /\ run[r].mode = "cli"
    /\ IF ok
       THEN /\ run' = [run EXCEPT ![r].pc = "complete"]
            /\ files' = Write(files, Summary(r))
       ELSE /\ run' = [run EXCEPT ![r].pc = "returned"]
            /\ UNCHANGED files
    /\ UNCHANGED log
    /\ UNCHANGED <<now, settingsVars, profileVars, keyVars, txnVars, uiVars, account>>

WriteSummary(r, ok) ==
    /\ run[r].pc = "gists_done"
    /\ run[r].mode = "cli"
    /\ IF ok
       THEN /\ run' = [run EXCEPT ![r].pc = "complete"]
            /\ files' = Write(files, Summary(r))
            /\ UNCHANGED log
       ELSE /\ Raise(r, "backup_summary")
            /\ UNCHANGED files
    /\ UNCHANGED <<now, settingsVars, profileVars, keyVars, txnVars, uiVars, account>>

ScreenComplete(r) ==
    /\ run[r].pc = "gists_done"
    /\ run[r].mode # "cli"
    /\ run' = [run EXCEPT ![r].pc = "complete"]
    /\ UNCHANGED <<now, settingsVars, profileVars, keyVars, txnVars, uiVars, account, files, log>>

(***************************************************************************)
(* action_cancel_backup of both screens: the task is cancelled, the screen *)
(* popped; a thread the executor already runs is not interrupted           *)
(***************************************************************************)
action_cancel_backup(r) ==
    /\ run[r].mode # "cli"
    /\ run[r].pc # "new"
    /\ ~run[r].cancelled
    /\ run' = [run EXCEPT ![r].cancelled = TRUE,
                          ![r].cancelled_at = IF run[r].pc \in {"repos", "metadata"}
                                              THEN run[r].i ELSE -1,
                          ![r].pc = IF run[r].pc = "mounted" THEN "cancelled" ELSE @]
    /\ UNCHANGED <<now, settingsVars, profileVars, keyVars, txnVars, uiVars, account, files, log>>

(***************************************************************************)
(* MainDashboard: the deletion requests and their confirmation by key, and *)
(* the start of a backup on a progress screen installed under a fixed name *)
(***************************************************************************)
NoDeletion == [kind |-> "", first |-> FALSE]
NoStart == [screen |-> "", outcome |-> ""]

\* pending_delete_repo = "" stands for the attribute not being set
NewDashboard ==
    [awaiting_delete_confirmation |-> FALSE, pending_delete_repo |-> "",
     awaiting_delete_all_confirmation |-> FALSE,
     single_fresh |-> FALSE, all_fresh |-> FALSE, executed |-> NoDeletion,
     installed |-> {}, top |-> "main", started |-> NoStart]

DashboardKeys == {"ctrl+y", "n"}

\* the names in the repository table
TableNames == {account[n].name : n \in DOMAIN account}

\* the delete key or the Delete button, with a row under the cursor
action_delete_selected_repo(repo_name) ==
    /\ dashboard.top = "main"
    /\ repo_name \in TableNames
    /\ dashboard' = [dashboard EXCEPT !.pending_delete_repo = repo_name,
                                      !.awaiting_delete_confirmation = TRUE,
                                      !.single_fresh = TRUE]
    /\ UNCHANGED <<now, settingsVars, profileVars, keyVars, txnVars, backupVars>>

\* ctrl+d: the request is made if the account has repositories
action_delete_all_repos ==
    /\ dashboard.top = "main"
    /\ dashboard' = IF account = <<>> THEN dashboard
                    ELSE [dashboard EXCEPT !.awaiting_delete_all_confirmation = TRUE,
                                           !.all_fresh = TRUE]
    /\ UNCHANGED <<now, settingsVars, profileVars, keyVars, txnVars, backupVars>>

\* user.get_repo(repo_name).delete(): the repository of that name under the login
\* is gone; if there is none the error is notified
_execute_single_repo_delete(repo_name) ==
    SelectSeq(account, LAMBDA repo : ~(repo.owner = login /\ repo.name = repo_name))

\* repo.delete() for every repository of get_repos(type='all')
_execute_delete_all_repos == <<>>

\* on_key: the single confirmation is looked at first and returns; the delete-all
\* confirmation is looked at only when no single one is awaited
on_key(key) ==
    /\ dashboard.top = "main"
    /\ LET handled == [dashboard EXCEPT !.single_fresh = FALSE, !.all_fresh = FALSE]
       IN  IF dashboard.awaiting_delete_confirmation
           THEN IF key = "ctrl+y" /\ dashboard.pending_delete_repo # ""
                THEN /\ account' = _execute_single_repo_delete(dashboard.pending_delete_repo)
                     /\ dashboard' = [handled EXCEPT
                            !.awaiting_delete_confirmation = FALSE,
                            !.pending_delete_repo = "",
                            !.executed = [kind |-> "single",
                                          first |-> dashboard.single_fresh]]
                ELSE /\ dashboard' = [handled EXCEPT !.awaiting_delete_confirmation = FALSE,
                                                     !.pending_delete_repo = ""]
                     /\ UNCHANGED account
           ELSE IF dashboard.awaiting_delete_all_confirmation
           THEN IF key = "ctrl+y"
                THEN /\ account' = _execute_delete_all_repos
                     /\ dashboard' = [handled EXCEPT
                            !.awaiting_delete_all_confirmation = FALSE,
                            !.executed = [kind |-> "all", first |-> dashboard.all_fresh]]
                ELSE /\ dashboard' = [handled EXCEPT
                            !.awaiting_delete_all_confirmation = FALSE]
                     /\ UNCHANGED account
           ELSE /\ dashboard' = handled
                /\ UNCHANGED account
    /\ UNCHANGED <<now, settingsVars, profileVars, keyVars, txnVars, run, files, log>>

\* what GitHubBackup.__init__ leaves: the instance, and a backup.log opened with mode 'w'
ConstructedRun(mode, selected) ==
    [NewRun EXCEPT !.pc = IF mode = "cli" THEN "start" ELSE "mounted",
                   !.mode = mode,
                   !.token = GetValue(settings["github_token"]).text,
                   !.selected_repos = selected]

StartLog ==
    {Msg("INFO", <<"Starting GitHub backup session">>), Msg("INFO", <<"User: ", login>>)}

\* App.install_screen raises ScreenError for a name that is installed already
CanInstall(installed, name) == name \notin installed

\* the body of action_start_backup and of action_backup_selected_repos: the tool is
\* constructed, the screen installed under its name and pushed, and on_mount creates
\* the task; an exception is notified
StartOnScreen(r, name, mode, selected) ==
    /\ dashboard.top = "main"
    /\ run[r].pc = "new"
    /\ "github_token" \in DOMAIN settings
    /\ log' = StartLog
    /\ IF CanInstall(dashboard.installed, name)
       THEN /\ run' = [run EXCEPT ![r] = ConstructedRun(mode, selected)]
            /\ dashboard' = [dashboard EXCEPT
                    !.installed = @ \cup {name}, !.top = name,
                    !.started = [screen |-> name, outcome |-> "shown"]]
       ELSE /\ dashboard' = [dashboard EXCEPT
                    !.started = [screen |-> name, outcome |-> "ScreenError"]]
            /\ UNCHANGED run
    /\ UNCHANGED <<now, settingsVars, profileVars, keyVars, txnVars, account, files>>

action_start_backup(r) == StartOnScreen(r, "backup_progress", "tui_full", {})

action_backup_selected_repos(r, selected) ==
    /\ selected # {}
    /\ StartOnScreen(r, "selective_backup_progress", "tui_selective", selected)

\* action_back of a progress screen: self.app.pop_screen()
action_back ==
    /\ dashboard.top # "main"
    /\ dashboard' = [dashboard EXCEPT !.top = "main"]
    /\ UNCHANGED <<now, settingsVars, profileVars, keyVars, txnVars, backupVars>>

(***************************************************************************)
(* The clock                                                               *)
(***************************************************************************)
Tick ==
    /\ now < MaxTime
    /\ now' = now + 1
    /\ UNCHANGED <<settingsVars, profileVars, keyVars, txnVars, uiVars, backupVars>>

(***************************************************************************)
(* Specifications                                                          *)
(***************************************************************************)
EmptyTable == [x \in {} |-> 0]

Init ==
    /\ now = 0
    /\ settings = EmptyTable
    /\ profiles = EmptyTable
    /\ got = NoGet
    /\ lastSet = EmptyTable
    /\ listed = NoList
    /\ lastDelete = NoDelete
    /\ lastActivate = NoActivate
    /\ key_file = NoKeyFile
    /\ manager = [m \in Managers |-> NewManager]
    /\ txn = NoTxn
    /\ seen = NoSeen
    /\ dashboard = NewDashboard
    /\ account = <<>>
    /\ run = [r \in Runs |-> NewRun]
    /\ files = {}
    /\ log = {}

\* the store after set_github_token, and an account to back up
TokenStored(token) ==
    [k \in {"github_token"} |->
        [value |-> StoredCell(PyStr(token), TRUE), encrypted |-> TRUE,
         description |-> "GitHub Personal Access Token", created_at |-> 0, updated_at |-> 0]]

BackupInit ==
    /\ now = 0
    /\ settings = TokenStored("ghp_abc")
    /\ profiles = EmptyTable
    /\ got = NoGet
    /\ lastSet = [k \in {"github_token"} |->
                    [value |-> PyStr("ghp_abc"), encrypted |-> TRUE, first |-> 0, at |-> 0]]
    /\ listed = NoList
    /\ lastDelete = NoDelete
    /\ lastActivate = NoActivate
    /\ key_file = NoKeyFile
    /\ manager = [m \in Managers |-> NewManager]
    /\ txn = NoTxn
    /\ seen = NoSeen
    /\ dashboard = NewDashboard
    /\ account \in Accounts
    /\ run = [r \in Runs |-> NewRun]
    /\ files = {}
    /\ log = {}

RunsInit ==
    /\ BackupInit
    /\ Len(account) = 1

SettingsNext ==
    \/ \E k \in Keys, v \in Values, e \in BOOLEAN, d \in Descriptions : Set(k, v, e, d)
    \/ \E t \in Tokens : SetGithubToken(t)
    \/ \E k \in Keys, d \in Defaults : Get(k, d)
    \/ \E k \in Keys : Delete(k)
    \/ ListSettings
    \/ Tick

ProfilesNext ==
    \/ \E n \in ProfileNames, s \in SettingsDicts : create_profile(n, s)
    \/ \E n \in ProfileNames : set_active_profile(n)
    \/ Tick

\* set_active_profile in its statements, and a reader beside it
ActivateNext ==
    \/ \E n \in ProfileNames, d \in SettingsDicts : CreateProfileBetween(n, d)
    \/ \E n \in ProfileNames : DeactivateAll(n)
    \/ ActivateNamed
    \/ CommitActive
    \/ ReadActive

\* the dashboard: requests, keys, starts and returns, for two runs
DashboardNext ==
    \/ \E n \in {"a", "b", "c"} : action_delete_selected_repo(n)
    \/ action_delete_all_repos
    \/ \E k \in DashboardKeys : on_key(k)
    \/ \E r \in Runs : action_start_backup(r)
    \/ \E r \in Runs : action_backup_selected_repos(r, {"a"})
    \/ action_back

\* the steps every entry shares, for the runs in rs, the external calls ending as
\* oks, outcomes and masks allow
RunSteps(rs, modes, oks, clones, outcomes, masks) ==
    \/ \E r \in rs, m \in modes, s \in Selections \cup {{}} : Construct(r, m, s)
    \/ \E r \in rs, ok \in oks : create_backup_structure(r, ok)
    \/ \E r \in rs, ok \in oks, keys \in oks : backup_user_metadata(r, ok, keys)
    \/ \E r \in rs, ok \in oks : Enumerate(r, ok)
    \/ \E r \in rs, c \in clones, masked \in masks : CloneStep(r, c, masked)
    \/ \E r \in rs, d \in outcomes, i \in outcomes, rl \in outcomes :
            backup_repository_metadata(r, d, i, rl)
    \/ \E r \in rs : FinishRepos(r)
    \/ \E r \in rs, o \in outcomes : backup_gists(r, o)

\* both tables, with few inputs
StoreKeys == {"k"}
StoreValues == {PyStr("123"), PyInt("123")}
StoreProfiles == {"A", "B"}

StoreCalls ==
    {SetCall(k, v, e, "None") : k \in StoreKeys, v \in StoreValues, e \in BOOLEAN}
    \cup {DeleteCall(k) : k \in StoreKeys}
    \cup {CreateProfileCall(n, "{}") : n \in StoreProfiles}
    \cup {SetActiveProfileCall(n) : n \in StoreProfiles}

StoreNext ==
    \/ \E k \in StoreKeys, v \in StoreValues, e \in BOOLEAN : Set(k, v, e, "None")
    \/ \E k \in StoreKeys : Delete(k)
    \/ \E n \in StoreProfiles : create_profile(n, "{}")
    \/ \E n \in StoreProfiles : set_active_profile(n)
    \/ Tick

\* the managers are constructed one after the other
Constructed(m) == \A o \in Managers \ {m} : manager[o].pc \in {"new", "ready", "failed"}

KeyNext ==
    \/ \E m \in Managers : Constructed(m) /\ KeyFileExists(m)
    \/ \E m \in Managers : ReadKey(m)
    \/ \E m \in Managers, mode \in CreateModes : OpenKeyFile(m, mode)
    \/ \E m \in Managers : WriteKey(m)
    \/ \E m \in Managers : ChmodKey(m)
    \/ \E m \in Managers : MakeCipher(m)
    \/ \E m \in Managers : ManagerSetToken(m, "ghp_abc")
    \/ \E m \in Managers : ManagerGetToken(m)
    \/ \E k \in Damages : Damage(k)

\* managers constructed side by side in processes that share the directory
KeyRaceNext ==
    \/ \E m \in Managers : KeyFileExists(m)
    \/ \E m \in Managers : ReadKey(m)
    \/ \E m \in Managers, mode \in CreateModes : OpenKeyFile(m, mode)
    \/ \E m \in Managers : WriteKey(m)
    \/ \E m \in Managers : ChmodKey(m)
    \/ \E m \in Managers : MakeCipher(m)
    \/ \E m \in Managers : ManagerSetToken(m, "ghp_abc")
    \/ \E m \in Managers : ManagerGetToken(m)

\* GitHubBackup.run_backup only
CommandSteps(rs, oks) ==
    \E r \in rs, ok \in oks : WriteSummary(r, ok)

\* the progress screens only
ScreenSteps(rs) ==
    \/ \E r \in rs : Dispatch(r)
    \/ \E r \in rs : SkipGists(r)
    \/ \E r \in rs : ScreenComplete(r)
    \/ \E r \in rs : action_cancel_backup(r)

\* one run, by any entry, every outcome of every external call
BackupNext ==
    \/ RunSteps({1}, Modes, BOOLEAN, CloneOutcomes, Outcomes, BOOLEAN)
    \/ CommandSteps({1}, BOOLEAN)
    \/ ScreenSteps({1})

\* one run_backup run, every outcome of every external call
CommandNext ==
    \/ RunSteps({1}, {"cli"}, BOOLEAN, CloneOutcomes, Outcomes, {TRUE})
    \/ CommandSteps({1}, BOOLEAN)

\* two run_backup runs side by side while the clock runs; of the external calls only
\* the clones fail
RunsNext ==
    \/ RunSteps(Runs, {"cli"}, {TRUE}, {"ok", "GitCommandError"}, {"ok"}, {TRUE})
    \/ CommandSteps(Runs, {TRUE})
    \/ Tick

vars == <<now, settings, profiles, got, lastSet, listed, lastDelete, lastActivate, key_file,
          manager, txn, seen, dashboard, account, run, files, log>>

SpecSettings == Init /\ [][SettingsNext]_vars
SpecProfiles == Init /\ [][ProfilesNext]_vars
SpecActivate == Init /\ [][ActivateNext]_vars
SpecDashboard == BackupInit /\ [][DashboardNext]_vars
SpecStore == Init /\ [][StoreNext]_vars
SpecKeyRace == Init /\ [][KeyRaceNext]_vars
SpecKey == Init /\ [][KeyNext]_vars
\* run_backup runs in one thread that is never suspended for good, and every external
\* call returns or raises: a step that can be taken is taken
SpecCommand == BackupInit /\ [][CommandNext]_vars /\ WF_vars(CommandNext)
SpecBackup == BackupInit /\ [][BackupNext]_vars
SpecRuns == RunsInit /\ [][RunsNext]_vars

(***************************************************************************)
(* The properties                                                          *)
(***************************************************************************)
Ended(r) == run[r].pc \in {"complete", "failed"}

Manifests(r) ==
    {f \in files : f.root = run[r].backup_root /\ f.path = <<"backup_summary.json">>}

RepositoryDirs(r) ==
    {f \in files : /\ f.root = run[r].backup_root
                   /\ f.kind = "dir"
                   /\ Len(f.path) = 2
                   /\ f.path[1] = "repositories"}

PerRepositoryCauses == {"clone_repository", "backup_repository_metadata"}

\* C1: a string stored with set(k, v, encrypted=True) is what the next get(k) returns,
\* with its type, also when its text is valid JSON
C1_EncryptedRoundTrip ==
    (/\ got.fresh
     /\ got.key \in DOMAIN lastSet
     /\ lastSet[got.key].encrypted
     /\ lastSet[got.key].value.type = "str")
    => got.value = lastSet[got.key].value

\* C2: the token is in no record of backup.log and in no file under the backup
\* directory, and the settings row that holds it is encrypted
C2_TokenNeverInLogOrOnDisk ==
    /\ \A r \in Runs, m \in log : run[r].token # "" => ~Contains(m.text, run[r].token)
    /\ \A r \in Runs, f \in files : run[r].token # "" => ~Contains(f.content, run[r].token)
    /\ "github_token" \in DOMAIN settings =>
            /\ settings["github_token"].encrypted
            /\ settings["github_token"].value.fernet # ""

\* C3: no run fails because of one repository: a failed clone or a failed metadata
\* fetch is never what ends a run
C3_RepositoryFailureNeverAborts ==
    \A r \in Runs : run[r].pc = "failed" => run[r].cause \notin PerRepositoryCauses

\* C4: every run that has completed, by whichever entry, has written
\* backup_summary.json in its run root
C4_CompletedRunHasManifest ==
    \A r \in Runs : run[r].pc = "complete" => Manifests(r) # {}

\* C5: a manifest says 'completed' only if no clone of its run failed, and
\* 'completed_with_errors' if one did
C5_StatusTellsPartialSuccess ==
    \A f \in files :
        f.path = <<"backup_summary.json">> =>
            /\ f.summary.status = "completed" => run[f.by].clone_failures = 0
            /\ run[f.by].clone_failures > 0 => f.summary.status = "completed_with_errors"

\* C6: the manifest of a full run counts the repositories the run enumerated and
\* processed, and the two clone counters add up to that number
C6_CountIsEnumerated ==
    \A f \in files :
        f.path = <<"backup_summary.json">> =>
            /\ f.summary.repositories_count = Len(run[f.by].enumerated)
            /\ run[f.by].clone_success + run[f.by].clone_failures = Len(run[f.by].enumerated)
            /\ run[f.by].clone_failures = 1 =>
                    run[f.by].clone_success = Len(run[f.by].enumerated) - 1

\* C7: two runs never share a run root, and every file under a run's root was
\* written by that run
C7_RunRootsAreDistinct ==
    /\ \A r1, r2 \in Runs :
            (r1 # r2 /\ run[r1].backup_root # NoRoot /\ run[r2].backup_root # NoRoot)
            => run[r1].backup_root # run[r2].backup_root
    /\ \A r \in Runs, f \in files : f.root = run[r].backup_root => f.by = r

\* C8: a selective run that has ended has processed exactly the enumerated
\* repositories whose name was selected, has one repository directory for each of
\* them and no other, and has not backed up the gists
C8_SelectiveRunIsExact ==
    \A r \in Runs :
        (run[r].mode = "tui_selective" /\ Ended(r)) =>
            LET scope == Selected(run[r].enumerated, run[r].selected_repos)
            IN  /\ run[r].repos = scope
                /\ run[r].i = Len(scope)
                /\ Cardinality(RepositoryDirs(r)) = Len(scope)
                /\ \A f \in RepositoryDirs(r) : \E j \in DOMAIN scope : f.path[2] = scope[j].name
                /\ ~run[r].gists

\* C9: a run cancelled mid-way, after k of its N repositories (0 < k < N), has, once
\* its work has come to its end, a manifest with status 'cancelled' that counts
\* those k repositories
C9_CancelledRunHasManifest ==
    \A r \in Runs :
        (/\ run[r].cancelled_at >= 1
         /\ run[r].cancelled_at < Len(run[r].repos)
         /\ run[r].pc = "complete") =>
            \E f \in Manifests(r) :
                /\ f.summary.status = "cancelled"
                /\ f.summary.repositories_count = run[r].cancelled_at

\* C10: at most one profile is active, and set_active_profile(B), called while a
\* profile is active and B exists, leaves B the one active profile
C10_OneActiveProfile ==
    /\ Cardinality(ActiveProfiles) <= 1
    /\ (lastActivate.existed /\ lastActivate.before # {}) => ActiveProfiles = {lastActivate.name}

\* B has just been activated while another profile, A, was the active one
C10_Witness ==
    /\ lastActivate.existed
    /\ lastActivate.before # {}
    /\ lastActivate.name \notin lastActivate.before
    /\ ActiveProfiles = {lastActivate.name}
    /\ Cardinality(DOMAIN profiles) >= 2

\* C11: set() on a key that already exists leaves the row's created_at at the time
\* the key was first created and puts the time of the overwrite in updated_at
C11_OverwriteKeepsCreatedAt ==
    \A k \in DOMAIN settings :
        /\ settings[k].created_at = lastSet[k].first
        /\ settings[k].updated_at = lastSet[k].at

KeyRank(k) == CHOOSE n \in DOMAIN KeysAscending : KeysAscending[n] = k

\* C12: what list_settings() returns has one entry per stored key, in ascending key
\* order, and an entry holds the row's encrypted flag, description, created_at and
\* updated_at and nothing else: no value, sealed or plain
C12_ListingHidesValues ==
    listed.fresh =>
        /\ {listed.rows[n].key : n \in DOMAIN listed.rows} = DOMAIN settings
        /\ \A m, n \in DOMAIN listed.rows :
                m < n => KeyRank(listed.rows[m].key) < KeyRank(listed.rows[n].key)
        /\ \A n \in DOMAIN listed.rows :
                LET info == listed.rows[n].info
                    row == settings[listed.rows[n].key]
                IN  /\ DOMAIN info = {"encrypted", "description", "created_at", "updated_at"}
                    /\ info.encrypted = row.encrypted
                    /\ info.description = row.description
                    /\ info.created_at = row.created_at
                    /\ info.updated_at = row.updated_at

\* a listing of two rows, the token's row encrypted, has been taken
C12_Witness ==
    /\ listed.fresh
    /\ Len(listed.rows) = 2
    /\ settings["github_token"].encrypted
    /\ ~settings["k"].encrypted

\* C13: delete(k) returns False and changes nothing when k is absent; when k is
\* present it returns True and removes the row, and a get(k, d) that follows
\* returns d
C13_DeleteContract ==
    lastDelete.fresh =>
        /\ lastDelete.result = lastDelete.existed
        /\ ~lastDelete.existed => lastDelete.unchanged
        /\ lastDelete.key \notin DOMAIN settings
        /\ (got.fresh /\ got.key = lastDelete.key) => got.value = got.default

\* a stored key has been deleted and then read with a default
C13_Witness ==
    /\ lastDelete.fresh
    /\ lastDelete.existed
    /\ lastDelete.result
    /\ got.fresh
    /\ got.key = lastDelete.key
    /\ got.default = PyStr("./backups")

\* C14: clone_repository never lets a failure out: whatever the clone raises, the call
\* returns (False, and True when the clone succeeded), the result is counted and the
\* run goes on to the repository's metadata
C14_CloneNeverRaises ==
    \A r \in Runs :
        /\ run[r].cause # "clone_repository"
        /\ run[r].pc = "metadata" =>
                run[r].clone_success + run[r].clone_failures = run[r].i + 1
        /\ run[r].pc \in {"repos", "repos_done", "gists_done", "complete"} =>
                run[r].clone_success + run[r].clone_failures = run[r].i

\* a clone has raised something other than GitCommandError and one has succeeded, and
\* the run is at the metadata of the repository whose clone came last
C14_Witness ==
    \E r \in Runs :
        /\ run[r].pc = "metadata"
        /\ run[r].clone_failures = 1
        /\ run[r].clone_success = 1
        /\ \E m \in log : m.level = "ERROR" /\ m.text[1] = "Unexpected error cloning "

\* C15: in backup_repository_metadata the descriptive fetch, the issues fetch and the
\* releases fetch do not depend on each other: whichever of them fail, with whatever
\* error, the call does not raise and the file of each fetch that can succeed is
\* written
C15_SubFetchesIndependent ==
    \A r \in Runs :
        LET m == run[r].fetched
            dir == <<"repositories", m.repo>>
        IN  m.repo # "" =>
                /\ run[r].cause # "backup_repository_metadata"
                /\ m.descriptive = "ok" =>
                        Exists(files, run[r].backup_root, dir \o <<"metadata.json">>)
                /\ m.issues = "ok" =>
                        Exists(files, run[r].backup_root, dir \o <<"issues.json">>)
                /\ m.releases = "ok" =>
                        Exists(files, run[r].backup_root, dir \o <<"releases.json">>)

\* C16: with a key file that is there but unreadable, or that holds a corrupted key,
\* constructing a manager, storing an encrypted setting and reading one fail with
\* EncryptionError and with nothing else
C16_DamagedKeyRaisesEncryptionError ==
    /\ \A m \in Managers :
            manager[m].damaged => manager[m].error = "EncryptionError"
    /\ (key_file.damage # "" /\ got.fresh) => got.value.type # "InvalidToken"

\* C17: whenever the key file holds the key its permissions are 0600
C17_KeyFileIsOwnerOnly ==
    (key_file.exists /\ key_file.content \in ValidKeys /\ key_file.damage = "") =>
        key_file.mode = OwnerOnly

Store == [settings |-> settings, profiles |-> profiles]

\* a store without its timestamps
Contents(store) ==
    [settings |-> [k \in DOMAIN store.settings |->
                      [value |-> store.settings[k].value,
                       encrypted |-> store.settings[k].encrypted,
                       description |-> store.settings[k].description]],
     profiles |-> [n \in DOMAIN store.profiles |->
                      [settings |-> store.profiles[n].settings,
                       active |-> store.profiles[n].active]]]

C19_NothingStartsAfterCancel ==
    [][\A r \in Runs :
            (run[r].cancelled /\ run[r].pc = "repos") => run'[r].pc # "metadata"]_vars

\* the steps of a full run from one phase to the next; the loop over the repositories
\* is the one phase between account_metadata_done and repos_done
PhaseSteps ==
    {<<"new", "start">>, <<"new", "mounted">>, <<"mounted", "start">>,
     <<"mounted", "cancelled">>,
     <<"start", "structure_created">>,
     <<"structure_created", "account_metadata_done">>,
     <<"account_metadata_done", "repos">>, <<"repos", "metadata">>, <<"metadata", "repos">>,
     <<"repos", "repos_done">>,
     <<"repos_done", "gists_done">>,
     <<"gists_done", "complete">>}

FullRun(r) == run[r].mode \in {"cli", "tui_full"}

\* C20: a full run goes from phase to phase in the one order structure created,
\* account metadata done, repositories done, gists done, complete, unless it fails: no
\* phase is skipped or entered again, the gists have been backed up when the gist
\* phase is over, and a manifest is there only in a complete run whose gist phase
\* is over
C20_PhasesInOrder ==
    /\ [](\A r \in Runs :
            FullRun(r) =>
                /\ run[r].pc \in {"gists_done", "complete"} => run[r].gists
                /\ Manifests(r) # {} => (run[r].pc = "complete" /\ run[r].gists))
    /\ [][\A r \in Runs :
            (FullRun(r) /\ run'[r].pc # run[r].pc) =>
                \/ <<run[r].pc, run'[r].pc>> \in PhaseSteps
                \/ run'[r].pc = "failed"]_vars

\* a run_backup run over two repositories is complete, its gists backed up and its
\* manifest written
C20_Witness ==
    \E r \in Runs :
        /\ run[r].mode = "cli"
        /\ run[r].pc = "complete"
        /\ run[r].i = 2
        /\ run[r].gists
        /\ Manifests(r) # {}

\* the number of repositories of its list a run has started
Started(r) ==
    run[r].i + (IF run[r].pc = "metadata" \/ run[r].cause = "backup_repository_metadata"
                THEN 1 ELSE 0)

\* the files and directories a run has under repositories/
RepositoryEntries(r) ==
    {f \in files : /\ f.root = run[r].backup_root
                   /\ Len(f.path) >= 2
                   /\ f.path[1] = "repositories"}

\* C21: a run takes its repositories one at a time and in order: what is on disk
\* under repositories/ belongs to the repositories started so far, a repository is
\* started only from the head of the loop, with every earlier one finished, and the
\* loop advances by one only when the metadata fetch that follows the clone has ended
C21_OneRepositoryAtATime ==
    /\ [](\A r \in Runs :
            /\ Started(r) <= Len(run[r].repos)
            /\ \A f \in RepositoryEntries(r) :
                    \E j \in 1..Started(r) : f.path[2] = run[r].repos[j].name)
    /\ [][\A r \in Runs :
            /\ run'[r].i # run[r].i =>
                    /\ run'[r].i = run[r].i + 1
                    /\ run[r].pc = "metadata"
                    /\ run'[r].pc = "repos"
            /\ (run'[r].pc = "metadata" /\ run[r].pc # "metadata") =>
                    /\ run[r].pc = "repos"
                    /\ run'[r].i = run[r].i
                    /\ \E f \in RepositoryEntries(r)' :
                            f.path = RepoDir(run[r].repos[run[r].i + 1])]_vars

\* the second of two repositories is at its metadata fetch, the first has its
\* directory and its metadata
C21_Witness ==
    \E r \in Runs :
        /\ run[r].pc = "metadata"
        /\ run[r].i = 1
        /\ run[r].repos[1].name # run[r].repos[2].name
        /\ \E f \in RepositoryEntries(r) :
                f.path = RepoDir(run[r].repos[1]) \o <<"metadata.json">>
        /\ \E f \in RepositoryEntries(r) : f.path = RepoDir(run[r].repos[2])

\* C22: the metadata of every repository in the scope of a run is fetched, whether its
\* clone succeeded or failed, and a metadata fetch, whatever its outcome, leaves the
\* clone counters as the clones left them: one count for every repository started
C22_CloneAndMetadataIndependent ==
    \A r \in Runs :
        /\ run[r].pc \in {"repos", "metadata", "repos_done", "gists_done", "complete"} =>
                run[r].clone_success + run[r].clone_failures = Started(r)
        /\ run[r].pc = "repos" => run[r].fetched.repo =
                (IF run[r].i = 0 THEN "" ELSE run[r].repos[run[r].i].name)
        /\ Ended(r) => Started(r) = Len(run[r].repos)

\* C26: within a run two different repositories never have the same directory: the
\* repositories started so far have pairwise different paths under repositories/
C26_OwnDirectoryPerRepository ==
    \A r \in Runs :
        \A j, k \in 1..Started(r) :
            j # k => RepoDir(run[r].repos[j]) # RepoDir(run[r].repos[k])

\* C27: create_profile leaves the active flag of every profile as it was: the
\* profiles that are active after the call are those that were active before it, so
\* get_active_profile returns the same name
C27_CreateProfileKeepsActive ==
    [][(\E n \in ProfileNames, d \in SettingsDicts : create_profile(n, d)) =>
            /\ ActiveProfiles' = ActiveProfiles
            /\ get_active_profile' = get_active_profile]_vars

\* C28: in a selective backup of n >= 1 repositories the progress value of the
\* repository bar never exceeds the bar's total and never decreases, and once the
\* last repository has been processed it equals the total
C28_ProgressReachesTotal ==
    /\ [](\A r \in Runs :
            (run[r].mode = "tui_selective" /\ Len(run[r].repos) >= 1) =>
                LET bar == run[r].bar
                IN  /\ bar.progress.num <= bar.total * bar.progress.den
                    /\ (run[r].pc \in {"repos_done", "gists_done", "complete"}) =>
                            bar.progress.num = bar.total * bar.progress.den)
    /\ [][\A r \in Runs :
            (run[r].mode = "tui_selective" /\ run'[r].mode = "tui_selective") =>
                run'[r].bar.progress.num * run[r].bar.progress.den
                    >= run[r].bar.progress.num * run'[r].bar.progress.den]_vars

\* C23: a get_active_profile of another process that falls into a set_active_profile
\* switching the active profile from A to an existing profile B returns A or B: never
\* None, and never out of a table with two active profiles
C23_SwitchIsAtomicForReaders ==
    /\ seen.active <= 1
    /\ (seen.during /\ seen.from # {} /\ seen.to \in DOMAIN profiles) =>
            /\ seen.value # {}
            /\ seen.value \subseteq seen.from \cup {seen.to}

\* the reader came between the two UPDATEs of a switch from A to B, and read A
C23_Witness ==
    /\ seen.during
    /\ txn.open
    /\ txn.done = 1
    /\ seen.from # {}
    /\ seen.to \in DOMAIN profiles
    /\ seen.to \notin seen.from
    /\ seen.value = seen.from

\* C24: a deletion on the dashboard is executed only by a Ctrl+Y that is the first key
\* handled after that deletion was requested
C24_DeletionNeedsImmediateConfirmation ==
    dashboard.executed.kind # "" => dashboard.executed.first

\* C29: a backup requested from the dashboard is started every time: its progress
\* screen is installed and shown and a new run is mounted, also after an earlier
\* backup's screen has been closed
C29_BackupStartsEveryTime ==
    dashboard.started.screen # "" =>
        /\ dashboard.started.outcome = "shown"
        /\ dashboard.started.screen \in dashboard.installed

\* C25: the managers that share a directory have one key, also when they are
\* constructed side by side with no key file there: every construction succeeds,
\* the constructed managers hold the same key, and what one stored encrypted another
\* reads
C25_OneKeyForAllManagers ==
    /\ \A m \in Managers : manager[m].error = ""
    /\ \A m, o \in Managers :
            (manager[m].pc = "ready" /\ manager[o].pc = "ready") =>
                manager[m].key = manager[o].key
    /\ got.fresh => got.value.type # "InvalidToken"

\* C30: run_backup, once started, comes to its end: it has written the manifest
\* (complete) or has raised to its caller (failed); and at its end it stays
C30_RunBackupTerminates ==
    /\ \A r \in Runs :
            (run[r].pc = "start") ~>
                (\/ run[r].pc = "complete" /\ Manifests(r) # {}
                 \/ run[r].pc = "failed")
    /\ [][\A r \in Runs : Ended(r) => run'[r] = run[r]]_vars

\* run_backup has gone through two repositories and is complete, its manifest written
C30_Witness ==
    \E r \in Runs :
        /\ run[r].pc = "complete"
        /\ run[r].i = 2
        /\ run[r].clone_failures = 1
        /\ Manifests(r) # {}
        /\ run[r].fetched.issues = "GithubException"

====
